---- MODULE Spec2Model ----
(***************************************************************************)
(* Model of demos/GradientDescent.cpp: the Dataset constructor, the        *)
(* per-sample gradient accumulation and update of performStep, and the     *)
(* do/while driver of optimize with its convergence test.                  *)
(*                                                                         *)
(* A double is modelled as an exact rational [n, d] in lowest terms        *)
(* (d > 0): rounding, infinities and NaN are not modelled.  The int        *)
(* currentStep and the unsigned maxSteps keep a width (IntBits), because   *)
(* the loop condition compares them after converting the int to unsigned   *)
(* and increments the int without a bound of its own.                      *)
(***************************************************************************)
EXTENDS Integers, Sequences, FiniteSets, TLC

\* ------------------------------------------------------------------ bounds
\* Width in bits of int / unsigned int in the model (32 in the program).
IntBits == 2
\* Largest Dataset::size explored (the program's default member value is 1000).
MaxSize == 2

RECURSIVE Pow2(_)
Pow2(k) == IF k = 0 THEN 1 ELSE 2 * Pow2(k - 1)

INT_MAX == Pow2(IntBits - 1) - 1
INT_MIN == 0 - Pow2(IntBits - 1)
UINT_MAX == Pow2(IntBits) - 1

\* ------------------------------------------------------------- "double"
RECURSIVE GCD(_, _)
GCD(a, b) == IF b = 0 THEN a ELSE GCD(b, a % b)

IAbs(a) == IF a < 0 THEN 0 - a ELSE a

\* The rational n/d (d # 0) in lowest terms with a positive denominator.
Rat(n, d) ==
  LET g == GCD(IAbs(n), IAbs(d))
      s == IF d < 0 THEN 0 - 1 ELSE 1
  IN  [n |-> s * (n \div g), d |-> s * (d \div g)]

Zero == [n |-> 0, d |-> 1]
FromInt(k) == [n |-> k, d |-> 1]

RAdd(a, b) ==
  LET g == GCD(a.d, b.d)
  IN  Rat(a.n * (b.d \div g) + b.n * (a.d \div g), (a.d \div g) * b.d)

RNeg(a) == [n |-> 0 - a.n, d |-> a.d]
RSub(a, b) == RAdd(a, RNeg(b))

RMul(a, b) ==
  LET g1 == GCD(IAbs(a.n), b.d)
      g2 == GCD(IAbs(b.n), a.d)
      h1 == IF g1 = 0 THEN 1 ELSE g1
      h2 == IF g2 = 0 THEN 1 ELSE g2
  IN  Rat((a.n \div h1) * (b.n \div h2), (a.d \div h2) * (b.d \div h1))

\* a / b for b # 0
RDiv(a, b) == RMul(a, Rat(b.d, b.n))

RLeq(a, b) ==
  LET g == GCD(a.d, b.d)
  IN  a.n * (b.d \div g) <= b.n * (a.d \div g)

RLt(a, b) == RLeq(a, b) /\ a # b

\* fabs: the absolute value of a double
RAbs(a) == [n |-> IAbs(a.n), d |-> a.d]

\* Conversion double -> int: the fractional part is discarded (toward zero).
\* The inputs keep every difference far inside the range of int, so the
\* out-of-range conversion is not modelled.
Trunc(a) == IF a.n < 0 THEN 0 - ((0 - a.n) \div a.d) ELSE a.n \div a.d


\* ------------------------------------------------------------- the build
\* abs at lines 113-114 is unqualified and the file includes neither <cmath>
\* nor <cstdlib>: it names double abs(double) where the standard library
\* declares the floating overloads globally, and int abs(int), which
\* truncates its argument first, where only the C declaration is visible.
AbsKinds == {"double", "int"}
\* currentStep++ on INT_MAX is a signed overflow: it wraps in a plain build
\* and aborts in a trapping one (-ftrapv).
OverflowKinds == {"wrap", "trap"}

\* ---------------------------------------------------------------- inputs
\* Values std::rand may return (0 .. RAND_MAX).
RandValues == {0, 50, 99, 100, 2147483647}

Samples == {[x |-> FromInt(0), y |-> FromInt(1)], [x |-> FromInt(1), y |-> FromInt(3)]}

\* The Dataset values handed to optimize: size samples, x and y paired by index.
Datasets ==
  UNION { { [x |-> [k \in 1..N |-> s[k].x], y |-> [k \in 1..N |-> s[k].y],
             size |-> N, learning_rate |-> lr] :
               s \in [1..N -> Samples], lr \in {Zero, Rat(1, 2), FromInt(1)} } :
          N \in 1..MaxSize }

Thetas == {<<Zero, Zero>>, <<FromInt(1), FromInt(2)>>}
Tolerances == {FromInt(0 - 1), Zero, Rat(1, 2)}

VARIABLES
  build,          \* [abs, overflow]: how the build resolved abs and signed overflow
  pc,             \* position in Dataset() / optimize / performStep
  dt,             \* Dataset: x, y, size, learning_rate
  theta,          \* optimize: theta (performStep mutates it through references)
  maxSteps,       \* optimize: unsigned int maxSteps
  eps,            \* optimize: double eps
  diff,           \* optimize: std::vector<double> diff
  hasConverged,   \* optimize: bool hasConverged
  currentStep,    \* optimize: int currentStep
  i,              \* loop index of Dataset() and of performStep
  result,         \* performStep: double result[2]
  ret,            \* the vector optimize returned (<<>> before the return)
  theta_init,     \* history: theta as the caller supplied it
  pre,            \* history: theta when the current performStep was entered
  visited,        \* history: sample indices the current performStep evaluated
  steps,          \* history: number of performStep calls
  reports,        \* history: the lines written to std::cout, [step, theta, steps]
  checks          \* history: value of hasConverged after each iteration

vars == <<build, pc, dt, theta, maxSteps, eps, diff, hasConverged, currentStep,
          i, result, ret, theta_init, pre, visited, steps, reports, checks>>

\* ------------------------------------------------------------ the program
\* double f(double theta_0, double theta_1, double x)
f(theta_0, theta_1, x) == RAdd(theta_0, RMul(theta_1, x))

\* double cost(double theta_0, double theta_1, double x, double y)
cost(theta_0, theta_1, x, y) ==
  LET f_x == f(theta_0, theta_1, x)
  IN  RMul(RSub(f_x, y), RSub(f_x, y))

\* clad::gradient(cost).execute: adds the four partial derivatives of cost
\* (with respect to theta_0, theta_1, x and y) to the four output slots J.
clad_grad_execute(theta_0, theta_1, x, y, J) ==
  LET e == RMul(FromInt(2), RSub(f(theta_0, theta_1, x), y))
  IN  [slot \in 1..4 |->
         CASE slot = 1 -> RAdd(J[1], e)
           [] slot = 2 -> RAdd(J[2], RMul(e, x))
           [] slot = 3 -> RAdd(J[3], RMul(e, theta_1))
           [] slot = 4 -> RAdd(J[4], RNeg(e))]

\* RandX with the remainder taken modulo 101: the fraction can reach 1.
RandX_Inclusive(r) == RDiv(RMul(FromInt(3), FromInt(r % 101)), FromInt(100))

\* rand_x = 3 * (float)(std::rand() % 100) / 100
RandX(r) == RDiv(RMul(FromInt(3), FromInt(r % 100)), FromInt(100))
\* t0 = 9 + (float)(std::rand() % 100) / 100
RandT0(r) == RAdd(FromInt(9), RDiv(FromInt(r % 100), FromInt(100)))

\* Update with the learning rate left out of the product.
Update_NoRate(th, lr, res, size) == RSub(th, RDiv(res, FromInt(2 * size)))

\* theta_k -= dt.learning_rate * result[k] / (2 * dt.size)
Update(th, lr, res, size) == RSub(th, RDiv(RMul(lr, res), FromInt(2 * size)))

\* abs(d) as the build resolved it
Abs(kind, d) == IF kind = "int" THEN FromInt(IAbs(Trunc(d))) ELSE RAbs(d)

\* ConvergenceTest with < in place of <=.
ConvergenceTest_Strict(kind, df, th, e) ==
  /\ RLt(Abs(kind, RSub(df[1], th[1])), e)
  /\ RLt(Abs(kind, RSub(df[2], th[2])), e)

\* abs(diff[0] - theta[0]) <= eps && abs(diff[1] - theta[1]) <= eps
ConvergenceTest(kind, df, th, e) ==
  /\ RLeq(Abs(kind, RSub(df[1], th[1])), e)
  /\ RLeq(Abs(kind, RSub(df[2], th[2])), e)

\* int -> unsigned int, the conversion the comparison with maxSteps applies
ToUnsigned(k) == k % (UINT_MAX + 1)

\* the left operand of the loop condition: currentStep++ < maxSteps
StepBelowBound(cs, ms) == ToUnsigned(cs) < ms

\* LoopCondition without the !hasConverged operand.
LoopCondition_IgnoresConvergence(cs, ms, hc) == StepBelowBound(cs, ms)

\* currentStep < maxSteps && !hasConverged (after the increment's read)
LoopCondition(cs, ms, hc) == StepBelowBound(cs, ms) /\ ~hc

\* Snapshot that value-initialises diff instead of copying theta.
Snapshot_Zeroed(th, df) == <<Zero, Zero>>

\* diff = theta
Snapshot(th, df) == th


\* currentStep++ where the build wraps
Increment(cs) == IF cs = INT_MAX THEN INT_MIN ELSE cs + 1

\* The optimizer state of the design: RUNNING until optimize returns, then
\* CONVERGED if the last convergence test was true, else MAX_STEPS_REACHED.
State ==
  IF pc # "returned" THEN "RUNNING"
  ELSE IF hasConverged THEN "CONVERGED" ELSE "MAX_STEPS_REACHED"

\* ---------------------------------------------------------- Dataset()
DatasetInit ==
  /\ build \in [abs : AbsKinds, overflow : OverflowKinds]
  /\ pc = "Dataset"
  /\ dt \in { [x |-> <<>>, y |-> <<>>, size |-> N, learning_rate |-> Rat(1, 100)] :
              N \in 1..MaxSize }
  /\ i = 0
  /\ theta = <<Zero, Zero>> /\ theta_init = <<Zero, Zero>>
  /\ maxSteps = 0 /\ eps = Zero
  /\ diff = <<>> /\ hasConverged = FALSE /\ currentStep = 0
  /\ result = <<Zero, Zero>> /\ ret = <<>>
  /\ pre = <<Zero, Zero>> /\ visited = <<>> /\ steps = 0
  /\ reports = <<>> /\ checks = <<>>

\* One pass of the constructor's for loop: two draws of std::rand, one sample.
DatasetLoop ==
  /\ pc = "Dataset"
  /\ i < dt.size
  /\ \E r1 \in RandValues, r2 \in RandValues :
       LET rand_x == RandX(r1)
           t0 == RandT0(r2)
           t1 == FromInt(2)
           rand_y == f(t0, t1, rand_x)
       IN  dt' = [dt EXCEPT !.x = Append(@, rand_x), !.y = Append(@, rand_y)]
  /\ i' = i + 1
  /\ UNCHANGED <<build, pc, theta, maxSteps, eps, diff, hasConverged, currentStep,
                 result, ret, theta_init, pre, visited, steps, reports, checks>>

DatasetDone ==
  /\ pc = "Dataset"
  /\ ~(i < dt.size)
  /\ pc' = "constructed"
  /\ UNCHANGED <<build, dt, theta, maxSteps, eps, diff, hasConverged, currentStep,
                 i, result, ret, theta_init, pre, visited, steps, reports, checks>>

DatasetNext == DatasetLoop \/ DatasetDone
DatasetSpec == DatasetInit /\ [][DatasetNext]_vars

\* ---------------------------------------------------------- optimize
\* The call optimize(theta, dt, maxSteps, eps), before its first statement.
Init ==
  /\ build \in [abs : AbsKinds, overflow : OverflowKinds]
  /\ pc = "optimize"
  /\ dt \in Datasets
  /\ theta \in Thetas
  /\ theta_init = theta
  /\ maxSteps \in 0..UINT_MAX
  /\ eps \in Tolerances
  /\ diff = <<>> /\ hasConverged = FALSE /\ currentStep = 0
  /\ i = 0 /\ result = <<Zero, Zero>> /\ ret = <<>>
  /\ pre = theta /\ visited = <<>> /\ steps = 0
  /\ reports = <<>> /\ checks = <<>>

\* std::vector<double> diff = theta; bool hasConverged = false; int currentStep = 0
optimize ==
  /\ pc = "optimize"
  /\ diff' = Snapshot(theta, diff)
  /\ hasConverged' = FALSE
  /\ currentStep' = 0
  /\ pc' = "performStep"
  /\ UNCHANGED <<build, dt, theta, maxSteps, eps, i, result, ret, theta_init,
                 pre, visited, steps, reports, checks>>

\* performStep whose sums are not reset on entry (result kept across calls).
performStep_KeepsSums ==
  /\ pc = "performStep"
  /\ i' = 0
  /\ pc' = "for"
  /\ pre' = theta
  /\ visited' = <<>>
  /\ steps' = steps + 1
  /\ UNCHANGED <<build, dt, theta, maxSteps, eps, diff, hasConverged, currentStep,
                 result, ret, theta_init, reports, checks>>

\* performStep is entered: double J_theta[4], result[2] = {0, 0}; i = 0
performStep ==
  /\ pc = "performStep"
  /\ result' = <<Zero, Zero>>
  /\ i' = 0
  /\ pc' = "for"
  /\ pre' = theta
  /\ visited' = <<>>
  /\ steps' = steps + 1
  /\ UNCHANGED <<build, dt, theta, maxSteps, eps, diff, hasConverged, currentStep,
                 ret, theta_init, reports, checks>>

\* The sums after one pass of the for loop over sample k (dt.x[k-1], dt.y[k-1]).
Accumulate(res, th, d, k) ==
  LET J_theta == clad_grad_execute(th[1], th[2], d.x[k], d.y[k],
                                   <<Zero, Zero, Zero, Zero>>)
  IN  <<RAdd(res[1], J_theta[1]), RAdd(res[2], J_theta[2])>>

performStepLoop ==
  /\ pc = "for"
  /\ i < dt.size
  /\ result' = Accumulate(result, theta, dt, i + 1)
  /\ visited' = Append(visited, i + 1)
  /\ i' = i + 1
  /\ UNCHANGED <<build, pc, dt, theta, maxSteps, eps, diff, hasConverged,
                 currentStep, ret, theta_init, pre, steps, reports, checks>>

\* The two updates after the loop (lines 84-85).
UpdateTheta(th, d, res) ==
  << Update(th[1], d.learning_rate, res[1], d.size),
     Update(th[2], d.learning_rate, res[2], d.size) >>

performStepUpdate ==
  /\ pc = "for"
  /\ ~(i < dt.size)
  /\ theta' = UpdateTheta(theta, dt, result)
  /\ pc' = "cout"
  /\ UNCHANGED <<build, dt, maxSteps, eps, diff, hasConverged, currentStep, i,
                 result, ret, theta_init, pre, visited, steps, reports, checks>>

\* std::cout << "Steps #" << currentStep << " Theta 0: " << ... << std::endl
Report ==
  /\ pc = "cout"
  /\ reports' = Append(reports, [step |-> currentStep, theta |-> theta,
                                 checked |-> Len(checks)])
  /\ pc' = "check"
  /\ UNCHANGED <<build, dt, theta, maxSteps, eps, diff, hasConverged, currentStep,
                 i, result, ret, theta_init, pre, visited, steps, checks>>

\* hasConverged = abs(...) <= eps && abs(...) <= eps; diff = theta
Check ==
  /\ pc = "check"
  /\ hasConverged' = ConvergenceTest(build.abs, diff, theta, eps)
  /\ checks' = Append(checks, hasConverged')
  /\ diff' = Snapshot(theta, diff)
  /\ pc' = "while"
  /\ UNCHANGED <<build, dt, theta, maxSteps, eps, currentStep, i, result, ret,
                 theta_init, pre, visited, steps, reports>>

\* currentStep++ overflows and the build traps
Traps == currentStep = INT_MAX /\ build.overflow = "trap"

\* while (currentStep++ < maxSteps && !hasConverged): the body runs again
LoopContinue ==
  /\ pc = "while"
  /\ ~Traps
  /\ LoopCondition(currentStep, maxSteps, hasConverged)
  /\ currentStep' = Increment(currentStep)
  /\ pc' = "performStep"
  /\ UNCHANGED <<build, dt, theta, maxSteps, eps, diff, hasConverged, i, result,
                 ret, theta_init, pre, visited, steps, reports, checks>>

\* the condition is false: return theta
LoopExit ==
  /\ pc = "while"
  /\ ~Traps
  /\ ~LoopCondition(currentStep, maxSteps, hasConverged)
  /\ currentStep' = Increment(currentStep)
  /\ ret' = theta
  /\ pc' = "returned"
  /\ UNCHANGED <<build, dt, theta, maxSteps, eps, diff, hasConverged, i, result,
                 theta_init, pre, visited, steps, reports, checks>>

\* the increment overflows in a trapping build: the process aborts
LoopTrap ==
  /\ pc = "while"
  /\ Traps
  /\ pc' = "aborted"
  /\ UNCHANGED <<build, dt, theta, maxSteps, eps, diff, hasConverged, currentStep,
                 i, result, ret, theta_init, pre, visited, steps, reports, checks>>

Next ==
  \/ optimize
  \/ performStep
  \/ performStepLoop
  \/ performStepUpdate
  \/ Report
  \/ Check
  \/ LoopContinue
  \/ LoopExit
  \/ LoopTrap

Spec == Init /\ [][Next]_vars


\* ------------------------------------------- the convergence test alone
\* (previous, current) parameter pairs and tolerances the test is applied to.
Half == Rat(1, 2)
Tiny == Rat(5, 10000000)
CheckPrevious == {<<FromInt(1), FromInt(2)>>, <<Zero, Zero>>}
CheckCurrent ==
  { <<RAdd(FromInt(1), Tiny), RSub(FromInt(2), Tiny)>>,
    <<FromInt(1), RSub(FromInt(2), Tiny)>>,
    <<FromInt(1), FromInt(2)>>,
    <<RAdd(FromInt(1), Half), FromInt(2)>>,
    <<FromInt(1), FromInt(4)>>,
    <<Zero, Zero>>,
    <<Zero, RNeg(Half)>> }
CheckTolerances == {Rat(1, 1000000), Rat(1, 10000000), Zero, Half, FromInt(1)}

\* optimize stands at its convergence test with the given diff, theta and eps.
CheckInit ==
  /\ build \in [abs : AbsKinds, overflow : OverflowKinds]
  /\ pc = "check"
  /\ dt \in {d \in Datasets : d.size = 1 /\ d.learning_rate = FromInt(1)}
  /\ diff \in CheckPrevious
  /\ pre = diff
  /\ theta_init = diff
  /\ theta \in CheckCurrent
  /\ maxSteps = UINT_MAX
  /\ eps \in CheckTolerances
  /\ hasConverged = FALSE /\ currentStep = 0
  /\ i = 1 /\ result = <<Zero, Zero>> /\ ret = <<>>
  /\ visited = <<1>> /\ steps = 1
  /\ reports = <<[step |-> 0, theta |-> theta, checked |-> 0]>>
  /\ checks = <<>>

CheckNext == Check
CheckSpec == CheckInit /\ [][CheckNext]_vars


\* ================================================================ claims
AbsLeq(a, b, e) == RLeq(RAbs(RSub(a, b)), e)
Terminal == {"CONVERGED", "MAX_STEPS_REACHED"}
NoRate == dt.learning_rate = Zero

\* Sum of the oracle's output comp over samples 1..k, each evaluated at th
\* with zeroed output slots.
RECURSIVE GradSum(_, _, _, _)
GradSum(d, th, comp, k) ==
  IF k = 0 THEN Zero
  ELSE RAdd(GradSum(d, th, comp, k - 1),
            clad_grad_execute(th[1], th[2], d.x[k], d.y[k],
                              <<Zero, Zero, Zero, Zero>>)[comp])

\* C1: the convergence test after a step is true iff both components of the
\* pre-step and the post-step parameters differ by at most eps in absolute
\* value (so for (1, 2) against (1 + 5e-7, 2 - 5e-7) it is true with
\* eps = 1e-6 and false with eps = 1e-7).
C1_Claim ==
  pc = "while" =>
    (hasConverged <=> (AbsLeq(pre[1], theta[1], eps) /\ AbsLeq(pre[2], theta[2], eps)))

\* C2: when performStep has updated theta, every sample was evaluated exactly
\* once in order, and each component is the pre-step component minus
\* learning_rate * (sum over all samples of the oracle output at the
\* pre-step parameters) / (2N); nothing of an earlier step is in the sums.
C2_Thm ==
  pc = "cout" =>
    /\ visited = [k \in 1..dt.size |-> k]
    /\ theta[1] = RSub(pre[1], RDiv(RMul(dt.learning_rate, GradSum(dt, pre, 1, dt.size)),
                                    FromInt(2 * dt.size)))
    /\ theta[2] = RSub(pre[2], RDiv(RMul(dt.learning_rate, GradSum(dt, pre, 2, dt.size)),
                                    FromInt(2 * dt.size)))

C2_Witness ==
  /\ pc = "cout"
  /\ steps >= 2
  /\ dt.size >= 2
  /\ theta[1] # pre[1]
  /\ theta[2] # pre[2]

\* C3: optimize performs at most maxSteps calls of performStep.
C3_Claim == steps <= maxSteps

\* C4 (as stated): with learning_rate = 0 and eps > 0 a finished optimize is in
\* MAX_STEPS_REACHED, not CONVERGED, having stopped at the step bound.
C4_Claim ==
  (NoRate /\ RLt(Zero, eps) /\ pc = "returned") =>
    (State = "MAX_STEPS_REACHED" /\ steps >= maxSteps)

\* C4 (amended): with learning_rate = 0 and eps > 0 optimize performs one step
\* only, its convergence test is true, and it returns in CONVERGED, never in
\* MAX_STEPS_REACHED, whatever maxSteps is.
C4_Amended ==
  (NoRate /\ RLt(Zero, eps)) =>
    /\ steps <= 1
    /\ pc # "aborted"
    /\ pc \in {"while", "returned"} => checks = <<TRUE>>
    /\ pc = "returned" => (State = "CONVERGED" /\ steps = 1)

C4_Witness ==
  /\ NoRate /\ RLt(Zero, eps)
  /\ pc = "returned"
  /\ maxSteps >= 2
  /\ steps = 1
  /\ theta_init # <<Zero, Zero>>

\* C5: with learning_rate = 0 and eps = 0 optimize converges at iteration 0:
\* one step only, the first convergence test is true, and the returned
\* parameters are the caller's initial parameters.
C5_Thm ==
  (NoRate /\ eps = Zero) =>
    /\ steps <= 1
    /\ pc # "aborted"
    /\ pc \in {"while", "returned"} => checks = <<TRUE>>
    /\ pc = "returned" =>
         /\ State = "CONVERGED"
         /\ steps = 1
         /\ reports[1].step = 0
         /\ ret = theta_init

C5_Witness ==
  /\ NoRate /\ eps = Zero
  /\ pc = "returned"
  /\ maxSteps >= 2
  /\ theta_init # <<Zero, Zero>>
  /\ ret = theta_init

\* C6: every run of optimize terminates by returning: it never stops anywhere
\* else, it makes a bounded number of steps, and when it has returned it is in
\* CONVERGED or MAX_STEPS_REACHED and the returned vector is the one the last
\* executed step produced.
C6_Claim ==
  /\ pc # "aborted"
  /\ steps <= UINT_MAX + 1
  /\ pc = "returned" =>
       /\ State \in Terminal
       /\ ret = theta
       /\ ret = reports[Len(reports)].theta

\* C7: at every convergence test diff is the parameter vector as it was when
\* that iteration's step began (the caller's initial parameters in the first
\* iteration), and after the test diff is the current vector.
C7_Thm ==
  /\ pc = "check" => (diff = pre /\ (steps = 1 => diff = theta_init))
  /\ pc \in {"while", "performStep", "returned"} => diff = theta

C7_Witness ==
  /\ pc = "check"
  /\ steps >= 2
  /\ diff # theta
  /\ diff # theta_init

\* C8: a constructed Dataset holds exactly size samples, x and y paired by
\* index (y[k] is t0 + 2 x[k] with t0 in [9, 10)), and every x is in [0, 3).
C8_Thm ==
  /\ Len(dt.x) = i /\ Len(dt.y) = i
  /\ pc = "constructed" => (Len(dt.x) = dt.size /\ Len(dt.y) = dt.size)
  /\ \A k \in 1..Len(dt.x) :
       /\ RLeq(Zero, dt.x[k]) /\ RLt(dt.x[k], FromInt(3))
       /\ LET t0 == RSub(dt.y[k], RMul(FromInt(2), dt.x[k]))
          IN  RLeq(FromInt(9), t0) /\ RLt(t0, FromInt(10))

C8_Witness ==
  /\ pc = "constructed"
  /\ dt.size = MaxSize
  /\ Len(dt.x) = MaxSize
  /\ \E k \in 1..Len(dt.x) : dt.x[k] = Rat(297, 100)
  /\ \E k \in 1..Len(dt.x) : dt.x[k] = Zero

\* C9: one report per iteration, written after that iteration's update and
\* before its convergence test, carrying the updated parameters; the
\* reported indices are 0, 1, 2, ... in order.
C9_Claim ==
  /\ Len(reports) = (IF pc \in {"for", "cout"} THEN steps - 1 ELSE steps)
  /\ \A k \in 1..Len(reports) :
       /\ reports[k].step = k - 1
       /\ reports[k].checked = k - 1
  /\ pc = "check" => reports[Len(reports)].theta = theta

\* The index of the first convergence test that was true (0 if none was).
FirstTrue == 
  IF \E k \in 1..Len(checks) : checks[k]
  THEN CHOOSE k \in 1..Len(checks) : checks[k] /\ \A j \in 1..(k - 1) : ~checks[j]
  ELSE 0

\* C10: no step runs after an iteration whose convergence test was true:
\* every test but the last was false, a step is under way only while no test
\* has been true, and a converged optimize returns the parameters of the
\* first iteration whose test was true.
C10_Thm ==
  /\ \A k \in 1..(Len(checks) - 1) : ~checks[k]
  /\ pc \in {"performStep", "for", "cout", "check"} => FirstTrue = 0
  /\ (pc = "returned" /\ FirstTrue # 0) =>
       (FirstTrue = steps /\ ret = reports[FirstTrue].theta)

C10_Witness ==
  /\ pc = "returned"
  /\ Len(checks) >= 2
  /\ checks[Len(checks)]
  /\ steps <= maxSteps

====
